---- MODULE Spec2Model ----
(***************************************************************************)
(* The resume tailoring session of ResumeMaker: the client-driven          *)
(* regeneration loop of JobDescStep.handleGenerate, in the two revisions   *)
(* the repository holds (the retryGeneration loop with MAX_RETRIES and the *)
(* regenerateResume loop with MAX_PASSES), and the regeneration loop the   *)
(* repository's plan lays out for it (generateWithRetry, with stale-score  *)
(* detection, the dual success test and consolidation).                    *)
(***************************************************************************)
EXTENDS Integers, Sequences, FiniteSets, TLC

VARIABLES
    impl,          \* the loop that runs: "retry" or "passes" (handleGenerate), "plan" (generateWithRetry)
    pc,            \* "idle", "awaitInitial", "awaitRetry", "awaitGenerate", "awaitConsolidate",
                   \* "done", "failed"
    retry,         \* the loop counter (retry / attempt)
    bestResult,    \* bestResult / bestResume: the resume retained, NoResume before attempt 0
    bestScore,     \* bestScore
    history,       \* handleGenerate: the attempts answered so far, in order: [outcome, score]
    pageStatus,    \* page_status of the attempt answered last (NoPageStatus if none)
    calls,         \* generator calls issued (generateResume + retryGeneration/regenerateResume)
    delivered,     \* the resume handed to onGenerationComplete, NoResume if none
    errorShown,    \* toast.error was shown
    cancelRequested, \* the caller's cancellation signal
    prevScore,     \* generateWithRetry: prevScore
    staleCount,    \* generateWithRetry: staleCount
    tailoredResume, \* generateWithRetry: tailoredResume
    forceVariation, \* generateWithRetry: force_variation sent with the last regenerateResume
    bestAttempt,   \* generateWithRetry: the attempt bestScore was taken from, [index, passed]:
                   \* its loop counter (0 before any) and whether its page status passed
    args,          \* a scoring function called on its own: the arguments of the call
    result,        \* a scoring function called on its own: what it returned, NoResult before
    fetchRetries,  \* the retries fetchWithRetry grants a call: 2 in the api that has it,
                   \* 0 in the api revisions that call api.post directly
    retriesLeft,   \* fetchWithRetry: retries of the call in flight
    progressStep,  \* ProgressStep: the component following a generation job, and the job
    editor         \* Editor and its EditModal: the resume held, the working copy, the store

\* The variables of generateWithRetry alone.
planVars == <<prevScore, staleCount, tailoredResume, forceVariation, bestAttempt>>

\* The variables of a scoring function called on its own.
callVars == <<args, result>>

\* The variables of a tailoring session.
sessionVars == <<impl, pc, retry, bestResult, bestScore, history, pageStatus, calls,
                 delivered, errorShown, cancelRequested, planVars>>

\* The variables of the api layer.
fetchVars == <<fetchRetries, retriesLeft>>

\* The variables of the components around the session.
uiVars == <<progressStep, editor>>

vars == <<sessionVars, callVars, fetchVars, uiVars>>

----------------------------------------------------------------------------
(* Program constants *)

TARGET_ATS_SCORE == 92
MAX_RETRIES == 9
TARGET_ATS_SCORE_PASSES == 80
MAX_PASSES == 5
MAX_ATTEMPTS == 10
TARGET_SCORE == 92

\* The top of the score scale: overall = min(overall, 100).
ScoreCeiling == 100

\* check_page_fill(pdf_bytes, target_fill=95)
TARGET_FILL == 95

\* The low-water mark of the last page's fill, in percent.
LowWaterMark == 40

(* Bounds of the model *)

\* No session issues more generator calls than this; the code stays below it.
MaxCalls == 11

\* The largest retry_count _combine_scores is called with.
MaxRetryCount == 4

\* The longest run of scores fed to the stale-score detection on its own.
MaxUpdates == 4

\* The bullets of a generated resume.
GeneratedBullets == 3

\* The status requests the polling of ProgressStep sends.
MaxRequests == 3

\* The bullets of the experience entry edited in EditModal.
MaxBullets == 2

\* The largest fill percentage (above 100: overflow) and page count of a rendered resume.
MaxFill == 120
MaxPages == 3

----------------------------------------------------------------------------
(* Values *)

Impls == {"retry", "passes"}

NoResume == <<>>
\* The resume produced by the attempt with (0-based) index k.
Resume(k) == <<k>>

NoScore == <<>>
NoArgs == <<>>
NoResult == <<>>
NoPageStatus == [present |-> FALSE, needs_content |-> FALSE, consolidate |-> FALSE]
NoAttempt == [index |-> 0, passed |-> FALSE]

\* ProgressStep before it is mounted, the job running: the component (mounted: "no",
\* "yes", "unmounted"), its WebSocket ("none", "connecting", "open", "errored",
\* "closed"), whether the interval of startPolling is set, the status requests sent
\* and those in flight, the status shown, the calls of setTimeout(onComplete, ...)
\* made, the status of the job at the backend and whether the backend has pushed
\* its final status over the socket.
NoProgressStep ==
    [mounted |-> "no", ws |-> "none", polling |-> FALSE, requests |-> 0, inFlight |-> 0,
     status |-> "pending", scheduled |-> 0, job |-> "processing", pushed |-> FALSE]

\* Editor before its effect has loaded the stored resume: the stored JSON text
\* ('tailored_resume'), the top-level objects held by Editor (tailoredResume) and
\* by EditModal (editedResume), and the nested objects (basics, the bullets array
\* of an experience entry) that every top-level object made from them refers to.
NoEditor ==
    [loaded |-> FALSE, isEditModalOpen |-> FALSE, stored |-> <<>>,
     tailoredResume |-> <<>>, editedResume |-> <<>>, basics |-> <<>>, bullets |-> <<>>]

\* page_status as the backend reports it: needs_content, and whether suggestion
\* carries the CONSOLIDATE marker.
PageStatuses ==
    { [present |-> TRUE, needs_content |-> FALSE, consolidate |-> FALSE],
      [present |-> TRUE, needs_content |-> TRUE,  consolidate |-> FALSE],
      [present |-> TRUE, needs_content |-> FALSE, consolidate |-> TRUE] }

Target(im) ==
    IF im = "retry" THEN TARGET_ATS_SCORE
    ELSE IF im = "passes" THEN TARGET_ATS_SCORE_PASSES
    ELSE TARGET_SCORE

\* The ats_score values a response may carry: one below the target, the target
\* itself, one above it; or none at all.
ScoreValues(im) == { <<Target(im) - 30>>, <<Target(im)>>, <<Target(im) + 3>>, NoScore }

\* A rejected call: an error other than a timeout, and axios' timeout error.
Thrown ==
    [threw |-> TRUE, code |-> "ERR_BAD_RESPONSE", success |-> FALSE, tailored_resume |-> FALSE,
     ats_score |-> NoScore, page_status |-> NoPageStatus]

TimedOut == [Thrown EXCEPT !.code = "ECONNABORTED"]

\* What a generator call can come back with: a response body, or a rejected promise.
Responses(im) ==
    [threw : {FALSE}, code : {"none"}, success : BOOLEAN, tailored_resume : BOOLEAN,
     ats_score : ScoreValues(im), page_status : PageStatuses]
    \cup {Thrown}

----------------------------------------------------------------------------
(* handleGenerate, piece by piece *)

\* response.ats_score ?? 0
Coalesce(s) == IF s = NoScore THEN 0 ELSE s[1]

\* !response.success || !response.tailored_resume
InitialRejectedLax(r) == ~r.success
InitialRejected(r) == ~r.success \/ ~r.tailored_resume

\* retryResp.success && retryResp.tailored_resume
RetryAcceptedLax(r) == r.success
RetryAccepted(r) == r.success /\ r.tailored_resume

\* catch (retryErr) { ...; break }
RetryAbortsNever(r) == FALSE
RetryAborts(r) == r.threw

\* newScore > bestScore
ImprovesOrTies(newScore, best) == newScore >= best
Improves(newScore, best) == newScore > best

\* The first value of the loop counter.
FirstIndexLate(im) == IF im = "retry" THEN 2 ELSE 3
FirstIndex(im) == IF im = "retry" THEN 1 ELSE 2

\* retry++ / attempt++
NextIndex(i) == i + 1

\* bestScore >= TARGET_ATS_SCORE (break) / bestScore < TARGET_ATS_SCORE (loop condition)
TargetReachedStrict(im, best) == best > Target(im)
TargetReached(im, best) == best >= Target(im)

\* retry <= MAX_RETRIES / attempt <= MAX_PASSES
WithinBudgetOffByOne(im, i) == IF im = "retry" THEN i <= MAX_RETRIES + 1 ELSE i <= MAX_PASSES + 1
WithinBudget(im, i) == IF im = "retry" THEN i <= MAX_RETRIES ELSE i <= MAX_PASSES

\* Whether the loop body runs once more, i.e. another generator call is made.
LoopContinues(im, i, best) == WithinBudget(im, i) /\ ~TargetReached(im, best)

\* The resume a response carries, produced by attempt k.
ResponseResume(r, k) == IF r.tailored_resume THEN Resume(k) ELSE NoResume

\* How an attempt ended, as the session sees it.
Outcome(r) ==
    IF r.threw THEN "thrown"
    ELSE IF r.success /\ r.tailored_resume THEN "ok"
    ELSE "reported"

Entry(r) ==
    [outcome |-> Outcome(r),
     score |-> IF Outcome(r) = "ok" THEN Coalesce(r.ats_score) ELSE 0,
     timeout |-> (r.threw /\ r.code = "ECONNABORTED")]

\* The page status kept for an attempt that produced a candidate.
EntryPage(r) == IF Outcome(r) = "ok" THEN r.page_status ELSE NoPageStatus

\* The loop test with counter i, the best so far being best/score: either the
\* next generator call is issued, or the loop is left and the best is handed over
\* (localStorage.setItem, toast.success, onGenerationComplete).
LoopTest(i, best, score) ==
    /\ retry' = i
    /\ bestResult' = best
    /\ bestScore' = score
    /\ IF LoopContinues(impl, i, score)
       THEN /\ calls < MaxCalls
            /\ pc' = "awaitRetry"
            /\ calls' = calls + 1
            /\ retriesLeft' = fetchRetries
            /\ delivered' = delivered
       ELSE /\ pc' = "done"
            /\ calls' = calls
            /\ retriesLeft' = retriesLeft
            /\ delivered' = best

----------------------------------------------------------------------------
(* Actions *)

\* No session has started.
IdleSession ==
    /\ pc = "idle"
    /\ retry = 0
    /\ bestResult = NoResume
    /\ bestScore = 0
    /\ history = <<>>
    /\ pageStatus = NoPageStatus
    /\ calls = 0
    /\ delivered = NoResume
    /\ errorShown = FALSE
    /\ cancelRequested = FALSE
    /\ prevScore = <<0>>
    /\ staleCount = 0
    /\ tailoredResume = NoResume
    /\ forceVariation = FALSE
    /\ bestAttempt = NoAttempt
    /\ progressStep = NoProgressStep
    /\ editor = NoEditor

\* The api calls api.post directly.
NoFetchRetry == fetchRetries = 0 /\ retriesLeft = 0

InitialState == IdleSession /\ args = NoArgs /\ result = NoResult /\ NoFetchRetry

Init == impl \in Impls /\ InitialState

\* handleGenerate is entered in tailor mode with a job description: the first
\* generateResume call is issued.
Start ==
    /\ impl \in Impls
    /\ pc = "idle"
    /\ pc' = "awaitInitial"
    /\ calls' = calls + 1
    /\ retriesLeft' = fetchRetries
    /\ UNCHANGED <<impl, retry, bestResult, bestScore, history, pageStatus,
                   delivered, errorShown, cancelRequested, planVars>>
    /\ UNCHANGED <<callVars, uiVars, fetchRetries>>

\* generateResume settles with r (a response body, or a rejection).
InitialSettles(r) ==
    /\ history' = Append(history, Entry(r))
    /\ pageStatus' = EntryPage(r)
    /\ IF r.threw \/ InitialRejected(r)
       THEN /\ pc' = "failed"
            /\ errorShown' = TRUE
            /\ UNCHANGED <<retry, bestResult, bestScore, calls, delivered, retriesLeft>>
       ELSE /\ errorShown' = errorShown
            /\ LoopTest(FirstIndex(impl), ResponseResume(r, 0), Coalesce(r.ats_score))
    /\ UNCHANGED <<impl, cancelRequested, planVars>>
    /\ UNCHANGED <<callVars, uiVars, fetchRetries>>

\* generateResume settles.
InitialResponse ==
    /\ pc = "awaitInitial"
    /\ \E r \in Responses(impl) : InitialSettles(r)

\* retryGeneration / regenerateResume settles with r.
RetrySettles(r) ==
    /\ history' = Append(history, Entry(r))
    /\ pageStatus' = EntryPage(r)
    /\ IF RetryAborts(r)
       THEN /\ pc' = "done"
            /\ delivered' = bestResult
            /\ UNCHANGED <<retry, bestResult, bestScore, calls, retriesLeft>>
       ELSE LET newScore == Coalesce(r.ats_score)
                better == RetryAccepted(r) /\ Improves(newScore, bestScore)
            IN  LoopTest(NextIndex(retry),
                         IF better THEN ResponseResume(r, Len(history)) ELSE bestResult,
                         IF better THEN newScore ELSE bestScore)
    /\ UNCHANGED <<impl, errorShown, cancelRequested, planVars>>
    /\ UNCHANGED <<callVars, uiVars, fetchRetries>>

\* retryGeneration / regenerateResume settles.
RetryResponse ==
    /\ pc = "awaitRetry"
    /\ \E r \in Responses(impl) : RetrySettles(r)

\* The caller raises its cancellation signal while a call is awaited.
Cancel ==
    /\ pc \in {"awaitInitial", "awaitRetry"}
    /\ ~cancelRequested
    /\ cancelRequested' = TRUE
    /\ UNCHANGED <<impl, pc, retry, bestResult, bestScore, history, pageStatus,
                   calls, delivered, errorShown, planVars>>
    /\ UNCHANGED <<callVars, uiVars, fetchVars>>

Next == Start \/ InitialResponse \/ RetryResponse

Spec == Init /\ [][Next]_vars

NextCancel == Next \/ Cancel

SpecCancel == Init /\ [][NextCancel]_vars

----------------------------------------------------------------------------
(* The progress reports of the retryGeneration loop *)

\* A generator call settles with a resume and the report of the attempt
\* (toast.success with the score formatted by toFixed) throws. After attempt 1 the
\* report stands in the outer try block: its catch shows the error and nothing is
\* handed over. In the loop it stands in the try block of the retry, before the
\* score is compared: the catch leaves the loop with the best so far.
ReportFails ==
    /\ impl = "retry"
    /\ \E r \in Responses(impl) :
        /\ ~r.threw
        /\ history' = Append(history, Entry(r))
        /\ pageStatus' = EntryPage(r)
        /\ \/ /\ pc = "awaitInitial"
              /\ ~InitialRejected(r)
              /\ pc' = "failed"
              /\ errorShown' = TRUE
              /\ delivered' = delivered
           \/ /\ pc = "awaitRetry"
              /\ RetryAccepted(r)
              /\ pc' = "done"
              /\ errorShown' = errorShown
              /\ delivered' = bestResult
    /\ UNCHANGED <<impl, retry, bestResult, bestScore, calls, cancelRequested, planVars>>
    /\ UNCHANGED <<callVars, uiVars, fetchVars>>

InitProgress == impl = "retry" /\ InitialState

NextProgress == Next \/ ReportFails

SpecProgress == InitProgress /\ [][NextProgress]_vars

----------------------------------------------------------------------------
(* The api layer: fetchWithRetry around the generator requests *)

\* retries > 0 && error.code === 'ECONNABORTED'
ShouldRetryNever(code, retries) == FALSE
ShouldRetry(code, retries) == retries > 0 /\ code = "ECONNABORTED"

\* The request of the call in flight times out: fetchWithRetry issues it again
\* while retries are left, otherwise the timeout error is thrown to handleGenerate.
RequestTimedOut ==
    /\ pc \in {"awaitInitial", "awaitRetry"}
    /\ IF ShouldRetry(TimedOut.code, retriesLeft)
       THEN /\ retriesLeft' = retriesLeft - 1
            /\ UNCHANGED <<sessionVars, callVars, uiVars, fetchRetries>>
       ELSE IF pc = "awaitInitial" THEN InitialSettles(TimedOut)
       ELSE RetrySettles(TimedOut)

\* The regenerateResume loop on the api with fetchWithRetry or on one without,
\* the retryGeneration loop on its api, which has none.
InitFetch ==
    /\ \/ (impl = "passes" /\ fetchRetries \in {0, 2})
       \/ (impl = "retry" /\ fetchRetries = 0)
    /\ IdleSession
    /\ args = NoArgs
    /\ result = NoResult
    /\ retriesLeft = 0

NextFetch == Next \/ RequestTimedOut

SpecFetch == InitFetch /\ [][NextFetch]_vars

----------------------------------------------------------------------------
(* generateWithRetry, the regeneration loop of the plan *)

\* The consolidated (trimmed) form of the resume of attempt k.
Trimmed(k) == <<k, k>>

\* The total bullet count of a resume: ContentGenerator._consolidate_resume removes
\* weak bullets, a generated resume has all of them.
Bullets(resume) ==
    IF resume = NoResume THEN 0
    ELSE IF Len(resume) = 2 THEN GeneratedBullets - 1
    ELSE GeneratedBullets

\* What generateResume / regenerateResume can come back with in the plan's loop,
\* which reads ats_score, tailored_resume and page_status and tests none of them.
PlanResponses ==
    [threw : {FALSE}, code : {"none"}, success : {TRUE}, tailored_resume : BOOLEAN,
     ats_score : ScoreValues("plan"), page_status : PageStatuses \cup {NoPageStatus}]
    \cup {Thrown}

\* What consolidateResume can come back with.
ConsolidateResponses ==
    [threw : {FALSE}, code : {"none"}, success : {TRUE}, tailored_resume : BOOLEAN,
     ats_score : {NoScore}, page_status : {NoPageStatus}]
    \cup {Thrown}

\* currentScore > bestScore, currentScore >= TARGET_SCORE: false for an undefined score.
JsGreater(s, n) == s # NoScore /\ s[1] > n
JsAtLeast(s, n) == s # NoScore /\ s[1] >= n

\* currentScore === prevScore ? staleCount + 1 : 0
StaleAfterNeverResets(current, prev, stale) == IF current = prev THEN stale + 1 ELSE stale
StaleAfter(current, prev, stale) == IF current = prev THEN stale + 1 ELSE 0

\* force_variation: staleCount >= 2
ForceVariation(stale) == stale >= 2

\* pagePassed = pageStatus && !pageStatus.needs_content && !suggestion.includes('CONSOLIDATE')
PagePassed(ps) == ps.present /\ ~ps.needs_content /\ ~ps.consolidate

\* pageStatus?.suggestion?.includes('CONSOLIDATE')
WantsConsolidationNever(ps) == FALSE
WantsConsolidation(ps) == ps.present /\ ps.consolidate

\* The for-loop test with counter i: the next regenerateResume call is issued, or
\* the loop is left and {resume: bestResume, score: bestScore} is returned.
PlanLoopTest(i, best, stale) ==
    /\ retry' = i
    /\ IF i <= MAX_ATTEMPTS
       THEN /\ calls < MaxCalls
            /\ pc' = "awaitGenerate"
            /\ calls' = calls + 1
            /\ forceVariation' = ForceVariation(stale)
            /\ delivered' = delivered
       ELSE /\ pc' = "done"
            /\ calls' = calls
            /\ forceVariation' = forceVariation
            /\ delivered' = best

\* After a consolidation made in iteration i the if block ends and the for loop
\* moves on to its next iteration.
AfterConsolidatedReevaluate(i, best, stale) ==
    /\ retry' = i
    /\ pc' = "awaitConsolidate"
    /\ UNCHANGED <<calls, forceVariation, delivered>>
AfterConsolidated(i, best, stale) == PlanLoopTest(i + 1, best, stale)

InitPlan == impl = "plan" /\ InitialState

\* generateWithRetry is entered: attempt 1 calls generateResume.
PlanStart ==
    /\ impl = "plan"
    /\ pc = "idle"
    /\ pc' = "awaitGenerate"
    /\ retry' = 1
    /\ calls' = calls + 1
    /\ UNCHANGED <<impl, bestResult, bestScore, history, pageStatus, delivered,
                   errorShown, cancelRequested, planVars>>
    /\ UNCHANGED <<callVars, uiVars, fetchVars>>

\* generateResume / regenerateResume settles: best tracking, stale detection,
\* the dual success test, and the consolidation call if the page asks for it.
PlanResponse ==
    /\ pc = "awaitGenerate"
    /\ \E r \in PlanResponses :
        IF r.threw
        THEN /\ pc' = "failed"
             /\ UNCHANGED <<retry, bestResult, bestScore, pageStatus, calls, delivered,
                            planVars>>
        ELSE LET currentScore == r.ats_score
                 resume == ResponseResume(r, retry - 1)
                 better == JsGreater(currentScore, bestScore)
                 best == IF better THEN resume ELSE bestResult
                 stale == StaleAfter(currentScore, prevScore, staleCount)
             IN  /\ tailoredResume' = resume
                 /\ pageStatus' = r.page_status
                 /\ bestScore' = IF better THEN currentScore[1] ELSE bestScore
                 /\ bestResult' = best
                 /\ bestAttempt' = IF better
                                   THEN [index |-> retry, passed |-> PagePassed(r.page_status)]
                                   ELSE bestAttempt
                 /\ staleCount' = stale
                 /\ prevScore' = currentScore
                 /\ IF JsAtLeast(currentScore, TARGET_SCORE) /\ PagePassed(r.page_status)
                    THEN /\ pc' = "done"
                         /\ delivered' = best
                         /\ UNCHANGED <<retry, calls, forceVariation>>
                    ELSE IF WantsConsolidation(r.page_status)
                    THEN /\ pc' = "awaitConsolidate"
                         /\ UNCHANGED <<retry, calls, forceVariation, delivered>>
                    ELSE PlanLoopTest(retry + 1, best, stale)
    /\ UNCHANGED <<impl, history, errorShown, cancelRequested>>
    /\ UNCHANGED <<callVars, uiVars, fetchVars>>

\* consolidateResume settles: its resume replaces tailoredResume and bestResume.
PlanConsolidated ==
    /\ pc = "awaitConsolidate"
    /\ \E c \in ConsolidateResponses :
        IF c.threw
        THEN /\ pc' = "failed"
             /\ UNCHANGED <<retry, bestResult, calls, delivered, planVars>>
        ELSE LET consolidated == IF c.tailored_resume THEN Trimmed(retry - 1) ELSE NoResume
             IN  /\ tailoredResume' = consolidated
                 /\ bestResult' = consolidated
                 /\ UNCHANGED <<prevScore, staleCount, bestAttempt>>
                 /\ AfterConsolidated(retry, consolidated, staleCount)
    /\ UNCHANGED <<impl, bestScore, history, pageStatus, errorShown, cancelRequested>>
    /\ UNCHANGED <<callVars, uiVars, fetchVars>>

NextPlan == PlanStart \/ PlanResponse \/ PlanConsolidated

SpecPlan == InitPlan /\ [][NextPlan]_vars

----------------------------------------------------------------------------
(* Every loop of the repository, each awaited call eventually settling *)

InitAll == (impl \in Impls \cup {"plan"}) /\ InitialState

NextAll == Next \/ NextPlan

FairSpec == InitAll /\ [][NextAll]_vars /\ WF_vars(NextAll)

----------------------------------------------------------------------------
(* HybridATSScorer._combine_scores, called on its own *)

\* min, max, abs of Python.
Min(a, b) == IF a <= b THEN a ELSE b
Max(a, b) == IF a >= b THEN a ELSE b
Abs(a) == IF a >= 0 THEN a ELSE 0 - a

\* retry_boost = min(5, retry_count * 2)
RetryBoost(retry_count) == Min(5, retry_count * 2)

\* The return statement of _combine_scores that is reached: the one for close
\* scores ("max"), for a much higher AI score ("ai"), for a much higher rule score
\* ("rule"), or the default at the end ("average").
CombineBranchOpenBand(ai_overall, rule_overall) ==
    IF Abs(ai_overall - rule_overall) < 15 THEN "max"
    ELSE IF ai_overall > rule_overall + 15 THEN "ai"
    ELSE IF rule_overall > ai_overall + 15 THEN "rule"
    ELSE "average"
CombineBranch(ai_overall, rule_overall) ==
    IF Abs(ai_overall - rule_overall) <= 15 THEN "max"
    ELSE IF ai_overall > rule_overall + 15 THEN "ai"
    ELSE IF rule_overall > ai_overall + 15 THEN "rule"
    ELSE "average"

\* _combine_scores(ai_score, rule_score, retry_count), on the two overall scores.
CombineScoresUnclamped(ai_overall, rule_overall, retry_count) ==
    LET retry_boost == RetryBoost(retry_count)
    IN  IF Abs(ai_overall - rule_overall) <= 15
        THEN Max(ai_overall, rule_overall) + retry_boost
        ELSE IF ai_overall > rule_overall + 15
        THEN ai_overall
        ELSE rule_overall + retry_boost
CombineScoresBoostsTrusted(ai_overall, rule_overall, retry_count) ==
    LET retry_boost == RetryBoost(retry_count)
    IN  IF Abs(ai_overall - rule_overall) <= 15
        THEN Min(100, Max(ai_overall, rule_overall) + retry_boost)
        ELSE IF ai_overall > rule_overall + 15
        THEN Min(100, ai_overall + retry_boost)
        ELSE Min(100, rule_overall + retry_boost)
CombineScores(ai_overall, rule_overall, retry_count) ==
    LET retry_boost == RetryBoost(retry_count)
        taken == CombineBranch(ai_overall, rule_overall)
    IN  IF taken = "max"
        THEN Min(100, Max(ai_overall, rule_overall) + retry_boost)
        ELSE IF taken = "ai"
        THEN ai_overall
        ELSE IF taken = "rule"
        THEN Min(100, rule_overall + retry_boost)
        ELSE Min(100, ((ai_overall + rule_overall) \div 2) + retry_boost)

\* The scorer around _combine_scores: without a model-judged score the rule-based
\* overall stands as it is.
CombineBoostsRuleAlone(rule, model, stale) ==
    IF model = NoScore THEN Min(100, rule + RetryBoost(stale))
    ELSE CombineScores(model[1], rule, stale)
Combine(rule, model, stale) ==
    IF model = NoScore THEN rule ELSE CombineScores(model[1], rule, stale)

\* The calls made: every pair of overall scores on the scale, the model-judged
\* one possibly missing, and every retry count up to MaxRetryCount.
CombineArgs ==
    [rule : 0..ScoreCeiling,
     model : {<<n>> : n \in 0..ScoreCeiling} \cup {NoScore},
     stale : 0..MaxRetryCount]

InitCombine ==
    /\ impl = "combine"
    /\ IdleSession
    /\ args \in CombineArgs
    /\ result = NoResult
    /\ NoFetchRetry

\* The scorer combines the two scores.
CombineCall ==
    /\ impl = "combine"
    /\ result = NoResult
    /\ result' = <<Combine(args.rule, args.model, args.stale)>>
    /\ UNCHANGED <<sessionVars, args, uiVars, fetchVars>>

SpecCombine == InitCombine /\ [][CombineCall]_vars

----------------------------------------------------------------------------
(* AlternativeATSScorer._score_keywords, called on its own *)

\* A skill string: its text in lower case, and whether it is written with capitals.
SkillTexts == {"python", "java", "aws"}
SkillStrings == SkillTexts \X BOOLEAN

\* skill.lower()
Lower(skill) == <<skill[1], FALSE>>

\* Whether the bullet text holds the skill: skill_lower in all_bullet_text, the
\* match without spaces, or the abbreviation of the skill in the text.
InBulletText(skill_lower, bullets) == skill_lower[1] \in bullets.words

\* _score_keywords(resume_skills, job_skills, bullets)
ScoreKeywords(resume_skills, job_skills, bullets) ==
    IF job_skills = {} THEN 90
    ELSE LET fromSkills == resume_skills \cap job_skills
             fromBullets ==
                IF bullets.given /\ bullets.words # {}
                THEN { Lower(skill) : skill \in { j \in job_skills : InBulletText(Lower(j), bullets) } }
                ELSE {}
             matched == fromSkills \cup fromBullets
             base_score == 50 + ((Cardinality(matched) * 50) \div Cardinality(job_skills))
         IN  Min(100, base_score)

\* The calls made: any skills on the resume, any required skills (each in one
\* spelling), bullets given or not, with any of the skill texts in them.
KeywordArgs ==
    { a \in [resume_skills : SUBSET SkillStrings,
             job_skills : SUBSET SkillStrings,
             bullets : [given : BOOLEAN, words : SUBSET SkillTexts]] :
        /\ a.bullets.given \/ a.bullets.words = {}
        /\ \A j, k \in a.job_skills : j[1] = k[1] => j = k }

InitKeywords ==
    /\ impl = "keywords"
    /\ IdleSession
    /\ args \in KeywordArgs
    /\ result = NoResult
    /\ NoFetchRetry

\* The keyword sub-score is computed.
KeywordsCall ==
    /\ impl = "keywords"
    /\ result = NoResult
    /\ result' = <<ScoreKeywords(args.resume_skills, args.job_skills, args.bullets)>>
    /\ UNCHANGED <<sessionVars, args, uiVars, fetchVars>>

SpecKeywords == InitKeywords /\ [][KeywordsCall]_vars

----------------------------------------------------------------------------
(* The stale-score detection of generateWithRetry, fed with scores on its own *)

\* The scores fed: the initial prevScore, two other scores, and an undefined ats_score.
StaleScores == {<<0>>, <<70>>, <<85>>, NoScore}

InitStale == impl = "stale" /\ InitialState

\* One pass through the stale detection with currentScore = s; force_variation is
\* what the next regenerateResume call is given.
StaleUpdate ==
    /\ impl = "stale"
    /\ Len(args) < MaxUpdates
    /\ \E s \in StaleScores :
        /\ args' = Append(args, s)
        /\ staleCount' = StaleAfter(s, prevScore, staleCount)
        /\ prevScore' = s
    /\ forceVariation' = ForceVariation(staleCount')
    /\ result' = Append(result, [staleCount |-> staleCount', forceVariation |-> forceVariation'])
    /\ UNCHANGED <<impl, pc, retry, bestResult, bestScore, history, pageStatus, calls,
                   delivered, errorShown, cancelRequested, tailoredResume, bestAttempt,
                   uiVars, fetchVars>>

SpecStale == InitStale /\ [][StaleUpdate]_vars

----------------------------------------------------------------------------
(* The session in the vocabulary of the specification *)

\* The attempts answered so far.
Attempts == Len(history)

Last == history[Len(history)]

\* maxAttempts: the first attempt plus MAX_RETRIES retries / MAX_PASSES passes.
MaxAttempts(im) == IF im = "retry" THEN 1 + MAX_RETRIES ELSE MAX_PASSES

\* attemptIndex of the attempt made with loop counter i.
AttemptIndex(im, i) == IF im = "retry" THEN i ELSE i - 1

\* pagePassed = pageStatus && !needs_content && !suggestion.includes('CONSOLIDATE'),
\* consolidation when suggestion.includes('CONSOLIDATE').
PageFitClassIgnoresMarker(ps) ==
    IF ~ps.present THEN "UNAVAILABLE"
    ELSE IF ps.needs_content THEN "NEEDS_CONTENT"
    ELSE "ACCEPTABLE"
PageFitClass(ps) ==
    IF ~ps.present THEN "UNAVAILABLE"
    ELSE IF ps.consolidate THEN "NEEDS_CONSOLIDATION"
    ELSE IF ps.needs_content THEN "NEEDS_CONTENT"
    ELSE "ACCEPTABLE"

\* PageManager.check_page_fill on a rendering whose last page is filled to fill
\* percent and which has pages pages, target being the page count aimed at: a
\* sparse trailing page gets the CONSOLIDATE suggestion (with needs_content False,
\* as in the page feedback consolidate_resume builds), any other page below the
\* target fill needs content.
CheckPageFill(fill, pages, target) ==
    LET sparse == fill < LowWaterMark /\ pages > target
    IN  [present |-> TRUE,
         needs_content |-> (fill < TARGET_FILL /\ ~sparse),
         consolidate |-> sparse]

\* The renderings classified: every fill, page count and page target.
ClassifyArgs == [fill : 0..MaxFill, pages : 1..MaxPages, target : 1..MaxPages]

InitClassify ==
    /\ impl = "classify"
    /\ IdleSession
    /\ args \in ClassifyArgs
    /\ result = NoResult
    /\ NoFetchRetry

\* The page status of a rendering is classified.
ClassifyCall ==
    /\ impl = "classify"
    /\ result = NoResult
    /\ result' = <<PageFitClass(CheckPageFill(args.fill, args.pages, args.target))>>
    /\ UNCHANGED <<sessionVars, args, uiVars, fetchVars>>

SpecClassify == InitClassify /\ [][ClassifyCall]_vars

\* The terminal state a finished session is in.
TerminalState ==
    IF pc = "failed" THEN "FAILED"
    ELSE IF pc = "done" /\ bestScore >= Target(impl) THEN "SUCCEEDED"
    ELSE IF pc = "done" THEN "EXHAUSTED"
    ELSE "RUNNING"

\* The positions (1-based) of the attempts that produced a scored candidate.
Scored(h) == { k \in 1..Len(h) : h[k].outcome = "ok" }

\* The position of the attempt with the highest score, the earliest among equals.
FirstBest(h) ==
    CHOOSE k \in Scored(h) :
        \A j \in Scored(h) :
            \/ h[j].score < h[k].score
            \/ (h[j].score = h[k].score /\ k <= j)

\* A generator that never improves on attempt 0 and never raises an error.
NeverImproves(h) ==
    /\ Len(h) >= 1
    /\ h[1].outcome = "ok"
    /\ h[1].score < Target(impl)
    /\ \A k \in 1..Len(h) : h[k].outcome # "thrown" /\ h[k].score <= h[1].score

----------------------------------------------------------------------------
(* The overall score of the rule-based ATS scorer, computed on its own *)

\* The six scoring dimensions and their weights, in percent: keyword match, STAR
\* compliance, quantification, action verb strength, format compliance, section
\* completeness.
Dimensions == <<"keyword", "star", "quantification", "verbs", "format", "completeness">>
Weights == [keyword |-> 25, star |-> 20, quantification |-> 20,
            verbs |-> 15, format |-> 10, completeness |-> 10]

\* The weighted sum of the sub-scores, in hundredths of a point.
RECURSIVE WeightedSum(_, _)
WeightedSum(subs, n) ==
    IF n = 0 THEN 0
    ELSE Weights[Dimensions[n]] * subs[Dimensions[n]] + WeightedSum(subs, n - 1)

\* The weighted sum in points, rounded to the nearest integer (a half upwards).
WeightedOverall(subs) == (WeightedSum(subs, Len(Dimensions)) + 50) \div 100

\* overall = max(75, min(overall, 100)), the clamp before the floor was removed.
ClampOverallFloored(overall) == Max(75, Min(overall, 100))
\* overall = min(overall, 100)
ClampOverall(overall) == Min(overall, 100)

\* The overall score of a breakdown.
OverallScore(subs) == ClampOverall(WeightedOverall(subs))

\* The sub-scores a breakdown is given: the ends of the scale and values between
\* them that make the weighted sum fall on, below and above a half.
SubScoreValues == {0, 10, 33, 50, 75, 100}

OverallArgs == [{"keyword", "star", "quantification", "verbs", "format", "completeness"}
                    -> SubScoreValues]

InitOverall ==
    /\ impl = "overall"
    /\ IdleSession
    /\ args \in OverallArgs
    /\ result = NoResult
    /\ NoFetchRetry

\* The overall score is computed.
OverallCall ==
    /\ impl = "overall"
    /\ result = NoResult
    /\ result' = <<OverallScore(args)>>
    /\ UNCHANGED <<sessionVars, args, uiVars, fetchVars>>

SpecOverall == InitOverall /\ [][OverallCall]_vars

----------------------------------------------------------------------------
(* The scorer and the stale-score detection over a session whose candidates all *)
(* get the same two scores                                                      *)

\* What the scorer hands to _combine_scores as retry_count for the attempt made
\* after n attempts: the retry number the client sends (retry_count: retry), or
\* the staleCount of the session.
RetryCountGiven(by, n, stale) == IF by = "retry_count" THEN n ELSE stale

\* The attempts a session may make: three, MAX_PASSES, MAX_ATTEMPTS.
Budgets == {3, MAX_PASSES, MAX_ATTEMPTS}

\* The rule-based and the model-judged overall every candidate of the session gets.
RepeatedScores == {50, 70, 90, 100}

RepeatArgs ==
    [rule : RepeatedScores, model : RepeatedScores,
     by : {"retry_count", "staleCount"}, budget : Budgets]

InitRepeat ==
    /\ impl = "repeat"
    /\ IdleSession
    /\ args \in RepeatArgs
    /\ result = NoResult
    /\ NoFetchRetry

\* One attempt: the candidate is scored, the two scores are combined, and the
\* stale-score detection sees the combined score.
RepeatAttempt ==
    /\ impl = "repeat"
    /\ Len(result) < args.budget
    /\ LET overall == Combine(args.rule, <<args.model>>,
                              RetryCountGiven(args.by, Len(result), staleCount))
       IN  /\ staleCount' = StaleAfter(<<overall>>, prevScore, staleCount)
           /\ prevScore' = <<overall>>
           /\ forceVariation' = ForceVariation(staleCount')
           /\ result' = Append(result, [overall |-> overall, staleCount |-> staleCount',
                                        forceVariation |-> forceVariation'])
    /\ UNCHANGED <<impl, pc, retry, bestResult, bestScore, history, pageStatus, calls,
                   delivered, errorShown, cancelRequested, tailoredResume, bestAttempt,
                   args, uiVars, fetchVars>>

SpecRepeat == InitRepeat /\ [][RepeatAttempt]_vars

----------------------------------------------------------------------------
(* ProgressStep: following a generation job over its WebSocket and by polling *)

\* The statuses a message or a status response reports.
JobStatuses == {"processing", "completed", "failed"}

\* ProgressStep does its part of an action: the other components stand still.
ProgressStepOnly ==
    /\ impl = "progressStep"
    /\ UNCHANGED <<sessionVars, callVars, fetchVars, editor>>

\* The status shown after setStatus(status): an unmounted component keeps no state.
Shown(ps, status) == IF ps.mounted = "yes" THEN status ELSE ps.status

\* The body shared by ws.onmessage and the polling callback once data is there:
\* 'completed' schedules onComplete, and the polling callback also clears its
\* interval on 'completed' and on 'failed'.
Observed(ps, status, polled) ==
    [ps EXCEPT !.status = Shown(ps, status),
               !.scheduled = IF status = "completed" THEN @ + 1 ELSE @,
               !.polling = IF polled /\ status \in {"completed", "failed"} THEN FALSE ELSE @]

\* startPolling(): setInterval(..., 2000).
StartPolling(ps) == [ps EXCEPT !.polling = TRUE]

\* The effect of ProgressStep runs: createWebSocket(jobId) gives a socket, or
\* throws and polling starts at once.
Mount ==
    /\ progressStep.mounted = "no"
    /\ \E threw \in BOOLEAN :
        progressStep' = IF threw
                        THEN StartPolling([progressStep EXCEPT !.mounted = "yes"])
                        ELSE [progressStep EXCEPT !.mounted = "yes", !.ws = "connecting"]
    /\ ProgressStepOnly

\* ws.onopen
WsOpen ==
    /\ progressStep.ws = "connecting"
    /\ progressStep' = [progressStep EXCEPT !.ws = "open"]
    /\ ProgressStepOnly

\* ws.onmessage: the backend pushes the status of the job, its final status once.
WsMessage ==
    /\ progressStep.ws = "open"
    /\ ~progressStep.pushed
    /\ progressStep' =
         Observed([progressStep EXCEPT !.pushed = (progressStep.job # "processing")],
                  progressStep.job, FALSE)
    /\ ProgressStepOnly

\* ws.onerror: startPolling().
WsError ==
    /\ progressStep.ws \in {"connecting", "open"}
    /\ progressStep' = StartPolling([progressStep EXCEPT !.ws = "errored"])
    /\ ProgressStepOnly

\* ws.onclose
WsClose ==
    /\ progressStep.ws \in {"open", "errored"}
    /\ progressStep' = [progressStep EXCEPT !.ws = "closed"]
    /\ ProgressStepOnly

\* The interval fires: getGenerationStatus(jobId) is requested.
PollTick ==
    /\ progressStep.polling
    /\ progressStep.requests < MaxRequests
    /\ progressStep' = [progressStep EXCEPT !.requests = @ + 1, !.inFlight = @ + 1]
    /\ ProgressStepOnly

\* getGenerationStatus settles, with the status of the job or with an error (which
\* is logged).
PollResponse ==
    /\ progressStep.inFlight > 0
    /\ \E threw \in BOOLEAN :
        LET settled == [progressStep EXCEPT !.inFlight = @ - 1]
        IN  progressStep' = IF threw THEN settled
                            ELSE Observed(settled, progressStep.job, TRUE)
    /\ ProgressStepOnly

\* The cleanup of the effect: wsRef.current.close().
Unmount ==
    /\ progressStep.mounted = "yes"
    /\ progressStep' =
         [progressStep EXCEPT !.mounted = "unmounted",
                              !.ws = IF @ \in {"connecting", "open"} THEN "closed" ELSE @]
    /\ ProgressStepOnly

\* The backend finishes the job.
JobFinishes ==
    /\ progressStep.job = "processing"
    /\ \E outcome \in JobStatuses \ {"processing"} :
        progressStep' = [progressStep EXCEPT !.job = outcome]
    /\ ProgressStepOnly

InitProgressStep == impl = "progressStep" /\ InitialState

NextProgressStep ==
    \/ Mount \/ WsOpen \/ WsMessage \/ WsError \/ WsClose
    \/ PollTick \/ PollResponse \/ Unmount \/ JobFinishes

SpecProgressStep == InitProgressStep /\ [][NextProgressStep]_vars

----------------------------------------------------------------------------
(* Editor and its EditModal: editing the tailored resume *)

\* The texts typed into a field, and the text addBullet pushes (a bullet mark and
\* a space).
Texts == {"a", "b"}
NewBullet == "* "

\* The sequences over S of length at most n.
SeqsUpTo(S, n) == UNION { [1..k -> S] : k \in 0..n }

\* JSON.stringify(resume): the text holds the values of the top-level object and
\* of the objects it refers to at the time of the call.
Stringify(top, basics, bullets) ==
    [summary |-> top.summary, name |-> basics.name, bullets |-> bullets]

\* The resumes 'tailored_resume' can hold when Editor is opened.
StoredResumes ==
    [summary : Texts, name : Texts, bullets : SeqsUpTo(Texts, MaxBullets)]

\* arr.splice(i, 1), i counted from 1.
Splice(arr, i) == [k \in 1..(Len(arr) - 1) |-> IF k < i THEN arr[k] ELSE arr[k + 1]]

\* Editor or EditModal does its part of an action: the other components stand still.
EditorOnly ==
    /\ impl = "editor"
    /\ UNCHANGED <<sessionVars, callVars, fetchVars, progressStep>>

\* The effect of Editor: setTailoredResume(JSON.parse(saved)), after which
\* EditModal is rendered for the first time and its state starts as the resume prop
\* (useState(resume)).
EditorLoads ==
    /\ ~editor.loaded
    /\ \E saved \in StoredResumes :
        editor' = [editor EXCEPT !.loaded = TRUE,
                                 !.stored = saved,
                                 !.tailoredResume = [summary |-> saved.summary],
                                 !.editedResume = [summary |-> saved.summary],
                                 !.basics = [name |-> saved.name],
                                 !.bullets = saved.bullets]
    /\ EditorOnly

\* setIsEditModalOpen(true)
OpenModal ==
    /\ editor.loaded
    /\ ~editor.isEditModalOpen
    /\ editor' = [editor EXCEPT !.isEditModalOpen = TRUE]
    /\ EditorOnly

\* onClose: setIsEditModalOpen(false)
CloseModal ==
    /\ editor.isEditModalOpen
    /\ editor' = [editor EXCEPT !.isEditModalOpen = FALSE]
    /\ EditorOnly

\* updateField(field, value): newResume = { ...editedResume } is a new top-level
\* object that refers to the same basics; 'name' (like 'email' and 'phone') is
\* written into basics, 'summary' into the new top-level object.
UpdateField ==
    /\ editor.isEditModalOpen
    /\ \E field \in {"name", "summary"}, value \in Texts :
        editor' = IF field = "name"
                  THEN [editor EXCEPT !.basics.name = value]
                  ELSE [editor EXCEPT !.editedResume.summary = value]
    /\ EditorOnly

\* updateBullet(expIdx, bulletIdx, value): written into the bullets array the copy
\* refers to.
UpdateBullet ==
    /\ editor.isEditModalOpen
    /\ \E bulletIdx \in 1..Len(editor.bullets), value \in Texts :
        editor' = [editor EXCEPT !.bullets[bulletIdx] = value]
    /\ EditorOnly

\* addBullet(expIdx): bullets.push(NewBullet)
AddBullet ==
    /\ editor.isEditModalOpen
    /\ Len(editor.bullets) < MaxBullets
    /\ editor' = [editor EXCEPT !.bullets = Append(@, NewBullet)]
    /\ EditorOnly

\* removeBullet(expIdx, bulletIdx): bullets.splice(bulletIdx, 1)
RemoveBullet ==
    /\ editor.isEditModalOpen
    /\ \E bulletIdx \in 1..Len(editor.bullets) :
        editor' = [editor EXCEPT !.bullets = Splice(@, bulletIdx)]
    /\ EditorOnly

\* handleReset: setEditedResume(resume)
HandleReset ==
    /\ editor.isEditModalOpen
    /\ editor' = [editor EXCEPT !.editedResume = editor.tailoredResume]
    /\ EditorOnly

\* handleSave: onSave(editedResume), which is handleSaveEdit of Editor
\* (setTailoredResume, localStorage.setItem), then onClose().
HandleSave ==
    /\ editor.isEditModalOpen
    /\ editor' = [editor EXCEPT !.tailoredResume = editor.editedResume,
                                !.stored = Stringify(editor.editedResume, editor.basics,
                                                     editor.bullets),
                                !.isEditModalOpen = FALSE]
    /\ EditorOnly

InitEditor == impl = "editor" /\ InitialState

NextEditor ==
    \/ EditorLoads \/ OpenModal \/ CloseModal \/ UpdateField \/ UpdateBullet
    \/ AddBullet \/ RemoveBullet \/ HandleReset \/ HandleSave

SpecEditor == InitEditor /\ [][NextEditor]_vars

----------------------------------------------------------------------------
(* Claims *)

Terminated == pc \in {"done", "failed"}

C3_DualSuccess ==
    (TerminalState = "SUCCEEDED") =>
        /\ Last.outcome = "ok"
        /\ Last.score >= Target(impl)
        /\ PageFitClass(pageStatus) = "ACCEPTABLE"

C5_InitialFailureIsFatal ==
    (Attempts >= 1 /\ history[1].outcome # "ok") =>
        /\ pc = "failed"
        /\ errorShown
        /\ delivered = NoResume
        /\ calls = 1
        /\ Attempts = 1

\* C5 witness: attempt 0 answered without a resume.
C5_Witness ==
    /\ pc = "failed"
    /\ history[1].outcome = "reported"

\* C6 as claimed: any failure after attempt 0, reported or raised, ends the
\* session at once with the best attempt returned.
C6_AnyFailureEndsSession ==
    (Attempts > 1 /\ Last.outcome # "ok") =>
        /\ pc = "done"
        /\ calls = Attempts
        /\ delivered = Resume(FirstBest(history) - 1)

\* C6 amended: an error raised by a generator call after attempt 0 ends the session
\* at once with the best attempt returned; a failure that is only reported in the
\* response discards that attempt, and the next attempt is made while attempts remain.
C6_RaisedErrorEndsSession ==
    /\ (Attempts > 1 /\ Last.outcome = "thrown") =>
            /\ pc = "done"
            /\ calls = Attempts
            /\ delivered = Resume(FirstBest(history) - 1)
    /\ (Attempts > 1 /\ Last.outcome = "reported" /\ Attempts < MaxAttempts(impl)) =>
            /\ pc = "awaitRetry"
            /\ calls = Attempts + 1
            /\ delivered = NoResume

\* C6 witness: a retry raised an error while attempts remained, and the session
\* ended with the best attempt, which was not attempt 0.
C6_Witness ==
    /\ Attempts > 1
    /\ Attempts < MaxAttempts(impl)
    /\ Last.outcome = "thrown"
    /\ pc = "done"
    /\ delivered = Resume(1)

\* C7: once an attempt satisfies the success test the session ends at that
\* attempt: no generator call follows it.
C7_SuccessStopsLoop ==
    (/\ Attempts >= 1
     /\ Last.outcome = "ok"
     /\ Last.score >= Target(impl)
     /\ PageFitClass(pageStatus) = "ACCEPTABLE") =>
        (pc = "done" /\ calls = Attempts)

\* C7 witness: attempt 2 reached 95 with an acceptable page fit; attempt 3 was not run.
C7_Witness ==
    /\ impl = "retry"
    /\ Attempts = 3
    /\ Last.outcome = "ok"
    /\ Last.score = 95
    /\ PageFitClass(pageStatus) = "ACCEPTABLE"
    /\ pc = "done"
    /\ calls = 3

C10_CancelStopsCalls == [][cancelRequested => calls' = calls]_vars

SpecBoost(stale) == IF 2 * stale < 5 THEN 2 * stale ELSE 5

\* C12: with both scores present, combine returns min(100, max(model, rule) + boost)
\* when they are within 15 of each other, the model score itself when it is more
\* than 15 above the rule score, and min(100, rule + boost) when the rule score is
\* more than 15 above the model score.
C12_CombineBands ==
    (impl = "combine" /\ result # NoResult /\ args.model # NoScore) =>
        LET m == args.model[1]
            r == args.rule
            top == IF m >= r THEN m ELSE r
            lifted(x) == IF x + SpecBoost(args.stale) > 100 THEN 100
                         ELSE x + SpecBoost(args.stale)
        IN  /\ (m - r <= 15 /\ r - m <= 15) => result[1] = lifted(top)
            /\ (m > r + 15) => result[1] = m
            /\ (r > m + 15) => result[1] = lifted(r)
            /\ (r = 80 /\ m = 78 /\ args.stale = 0) => result[1] = 80
            /\ (r = 60 /\ m = 90 /\ args.stale = 0) => result[1] = 90
            /\ (r = 90 /\ m = 60 /\ args.stale = 1) => result[1] = 92

\* C12 witness: combine(rule=90, model=60, stale=1) has returned 92.
C12_Witness ==
    /\ impl = "combine"
    /\ args = [rule |-> 90, model |-> <<60>>, stale |-> 1]
    /\ result = <<92>>

C17_ScoreOnlyWithoutPageStatus ==
    (/\ impl = "plan"
     /\ retry >= 1
     /\ pc \in {"awaitGenerate", "awaitConsolidate", "done"}
     /\ calls = retry
     /\ ~pageStatus.present) =>
        /\ JsAtLeast(prevScore, TARGET_SCORE) => (pc = "done" /\ delivered = bestResult)
        /\ (~JsAtLeast(prevScore, TARGET_SCORE) /\ pc = "done") => retry > MAX_ATTEMPTS

\* C18 as claimed: a timeout of a generator request is a generation failure of
\* that attempt: no call is still awaited once one of its requests timed out.
C18_TimeoutIsFailure ==
    (pc \in {"awaitInitial", "awaitRetry"}) => retriesLeft = fetchRetries

\* C18 amended: a request that times out is issued again, at most twice per call
\* where the api has fetchWithRetry and never where it has not; a timeout with no
\* retry left is thrown, and the session then does what it does for any error a
\* call raises at that attempt: FAILED at attempt 0, the best so far afterwards.
C18_ExhaustedTimeoutIsRaisedError ==
    /\ retriesLeft >= 0 /\ retriesLeft <= fetchRetries
    /\ (Attempts >= 1 /\ Last.timeout) => retriesLeft = 0
    /\ (Attempts = 1 /\ Last.outcome = "thrown") =>
            (pc = "failed" /\ errorShown /\ delivered = NoResume /\ calls = 1)
    /\ (Attempts > 1 /\ Last.outcome = "thrown") =>
            (pc = "done" /\ ~errorShown /\ delivered = bestResult
                /\ bestResult # NoResume /\ calls = Attempts)

\* C18 witness: the second regenerateResume call timed out three times in a row;
\* the session ended with the resume of attempt 0.
C18_Witness ==
    /\ impl = "passes"
    /\ fetchRetries = 2
    /\ retriesLeft = 0
    /\ Attempts = 3
    /\ Last.timeout
    /\ pc = "done"
    /\ delivered = Resume(0)

\* C19: progress reports are advisory: whatever a report does, failing included,
\* the session fails only if attempt 0 failed, it stops calling the generator only
\* on a raised error, on reaching the target or on using up its attempts, and it
\* retains and hands over the earliest highest-scoring attempt.
C19_ReportsAreAdvisory ==
    /\ (pc = "failed") => history[1].outcome # "ok"
    /\ (pc = "done") =>
        /\ Last.outcome = "thrown" \/ bestScore >= Target(impl) \/ Attempts = MaxAttempts(impl)
        /\ bestScore = history[FirstBest(history)].score
        /\ delivered = Resume(FirstBest(history) - 1)

\* The required skills found in the candidate: in its skills list, or in its bullets.
FoundInCandidate ==
    { j \in args.job_skills :
        j \in args.resume_skills \/ (args.bullets.given /\ Lower(j)[1] \in args.bullets.words) }

\* C20: with a non-empty required set the keyword sub-score is 50 + 50 * matched /
\* required (in whole points, never above 100), matched being the required skills
\* found in the candidate: 50 when none is found, 100 only when all are; it is 90
\* when nothing is required.
C20_KeywordScore ==
    (impl = "keywords" /\ result # NoResult) =>
        LET required == Cardinality(args.job_skills)
            matched == Cardinality(FoundInCandidate)
        IN  /\ (required = 0) => result[1] = 90
            /\ (required > 0) =>
                /\ result[1] = 50 + ((50 * matched) \div required)
                /\ result[1] <= 100
                /\ (matched = 0) => result[1] = 50
                /\ (result[1] = 100) => matched = required

ScoreBefore(scores, k) == IF k = 1 THEN <<0>> ELSE scores[k - 1]

\* The k-th attempt brought no improvement: its score is not higher than before.
NonImproving(scores, k) == ~(ScoreBefore(scores, k) # NoScore /\ JsGreater(scores[k], ScoreBefore(scores, k)[1]))

\* The number of consecutive most recent attempts, up to the k-th, without improvement.
RECURSIVE TrailingNonImproving(_, _)
TrailingNonImproving(scores, k) ==
    IF k = 0 \/ ~NonImproving(scores, k) THEN 0
    ELSE 1 + TrailingNonImproving(scores, k - 1)

\* C22: after each attempt staleCount is the number of consecutive most recent
\* attempts that brought no improvement, an attempt being non-improving whenever
\* its overall is not higher than before (every attempt having an overall).
C22_StaleCountsNonImproving ==
    (impl = "stale" /\ \A k \in 1..Len(args) : args[k] # NoScore) =>
        \A k \in 1..Len(result) : result[k].staleCount = TrailingNonImproving(args, k)

\* staleCount after the first n attempts of h, as the stale-score detection
\* counts it from their scores.
RECURSIVE StaleCountAfter(_, _)
StaleCountAfter(h, n) ==
    IF n = 0 THEN 0
    ELSE StaleAfter(<<h[n].score>>,
                    IF n = 1 THEN <<0>> ELSE <<h[n - 1].score>>,
                    StaleCountAfter(h, n - 1))

\* C23: every generator call for an attempt after attempt 0 carries
\* forceVariation = true exactly when staleCount is at least 2 after the
\* preceding attempt (stated for sessions whose attempts all returned a scored
\* candidate).
C23_ForceVariationIffStale ==
    (/\ impl \in Impls
     /\ pc = "awaitRetry"
     /\ \A k \in 1..Len(history) : history[k].outcome = "ok" /\ history[k].score > 0) =>
        (forceVariation <=> StaleCountAfter(history, Len(history)) >= 2)

\* generateWithRetry left its loop through the success break: the attempt
\* answered last passed the dual success test.
PlanSucceeded ==
    /\ impl = "plan"
    /\ pc = "done"
    /\ JsAtLeast(prevScore, TARGET_SCORE)
    /\ PagePassed(pageStatus)

\* C24: when the session ends SUCCEEDED, the candidate returned (bestAttempt)
\* itself satisfies the dual success test: its own overall is at least the target
\* and its own page fit is acceptable.
C24_ReturnedCandidatePasses ==
    PlanSucceeded =>
        /\ delivered \in {Resume(bestAttempt.index - 1), NoResume}
        /\ bestScore >= TARGET_SCORE
        /\ bestAttempt.passed

\* C25: if every attempt's candidate gets the same rule-based and model-judged
\* scores and the budget allows at least three attempts, staleCount reaches 2 and
\* forceVariation becomes true: the retry boost of the combiner does not keep
\* resetting the stagnation counter.
C25_RepeatedScoresGoStale ==
    (impl = "repeat" /\ args.budget >= 3 /\ Len(result) = args.budget) =>
        \E k \in 1..Len(result) : result[k].staleCount >= 2 /\ result[k].forceVariation

\* C26: for all integer rule and model scores one of the three gap bands applies
\* (close scores, model much higher, rule much higher), so the averaging rule at
\* the end of the combiner never produces the result.
C26_AveragingNeverApplies ==
    (impl = "combine" /\ result # NoResult /\ args.model # NoScore) =>
        LET ai == args.model[1]
            boost == IF 2 * args.stale < 5 THEN 2 * args.stale ELSE 5
            capped(x) == IF x > 100 THEN 100 ELSE x
        IN  /\ CombineBranch(ai, args.rule) \in {"max", "ai", "rule"}
            /\ \/ ai - args.rule \in 0..15 /\ result[1] = capped(ai + boost)
               \/ args.rule - ai \in 0..15 /\ result[1] = capped(args.rule + boost)
               \/ ai > args.rule + 15 /\ result[1] = ai
               \/ args.rule > ai + 15 /\ result[1] = capped(args.rule + boost)

\* Scores exactly 15 apart, on the edge of the close band, have been combined
\* with a boost.
C26_Witness ==
    /\ impl = "combine"
    /\ result # NoResult
    /\ args.model = <<55>>
    /\ args.rule = 70
    /\ args.stale = 1
    /\ result[1] = 72

\* The attempt (0-based index) a resume comes from, consolidated or not.
AttemptOf(resume) == resume[1]

\* C27: throughout the client loop and in its result, the best resume and the
\* best score belong to the same attempt, including after a consolidation step.
C27_BestPairFromOneAttempt ==
    (impl = "plan" /\ bestAttempt.index > 0) =>
        /\ (bestResult # NoResume) => AttemptOf(bestResult) = bestAttempt.index - 1
        /\ (pc = "done" /\ delivered # NoResume) =>
               AttemptOf(delivered) = bestAttempt.index - 1

\* C28: ProgressStep schedules onComplete at most once per job, whatever the
\* interleaving of WebSocket messages, WebSocket errors and polling responses.
C28_OnCompleteScheduledOnce ==
    (impl = "progressStep") => progressStep.scheduled <= 1

\* C29: once ProgressStep has observed the status 'completed' or 'failed', or has
\* been unmounted, its polling timer is cleared: no further status request is sent.
C29_PollingStops ==
    [][(/\ impl = "progressStep"
        /\ \/ progressStep.mounted = "unmounted"
           \/ progressStep.status \in {"completed", "failed"})
       => progressStep'.requests = progressStep.requests]_vars

\* C30: unsaved edits are confined to the working copy of the edit modal: the
\* resume held by Editor, like the stored 'tailored_resume', is what was loaded or
\* last saved until Save is pressed, also after Reset or closing without saving.
C30_UnsavedEditsConfined ==
    (impl = "editor" /\ editor.loaded) =>
        Stringify(editor.tailoredResume, editor.basics, editor.bullets) = editor.stored

====
